---- MODULE Spec2Model ----
(***************************************************************************)
(* rust-runner (src/src/main.rs): read one Rust source file, scan it for   *)
(* `// rust-runner:` directives and `use` imports, scaffold a throwaway    *)
(* cargo project in a temporary directory, `cargo add` the imports,        *)
(* `cargo run`, restore the working directory.                             *)
(*                                                                         *)
(* Text is modelled at the level of lexical tokens: a line is a sequence   *)
(* of tokens (" " is one whitespace character, "//" the comment marker,    *)
(* "rust-runner:" the directive marker, ";" and "=" the separators, any    *)
(* other token a run of non-blank characters), and `content` is the        *)
(* sequence of lines that content.lines() yields.  trim, starts_with, the  *)
(* two regular expressions, split and splitn are computed on that          *)
(* representation.                                                         *)
(***************************************************************************)
EXTENDS Integers, Sequences, FiniteSets, TLC

VARIABLES content, pc, parsed, toolchain, imports, remaining,
          cwd, old_current, tmpdir, fs, res, result, trace

vars == <<content, pc, parsed, toolchain, imports, remaining,
          cwd, old_current, tmpdir, fs, res, result, trace>>

\* ------------------------------------------------------------------ bounds

\* Longest source text, in lines.
MaxLines == 3

\* ------------------------------------------------------------ input texts

\* The lines the source texts are built from.
LineSamples ==
  { <<" ">>,
    <<"//", " ", "hi">>,
    <<"//", " ", "rust-runner:", " ", "toolchain", "=", "nightly">>,
    <<" ", "//", "rust-runner:", "toolchain", "=", "1.70", ";", "toolchain", "=", "stable">>,
    <<"//", "rust-runner:", "toolchain", "=", "nightly", ";", "toolchain">>,
    <<"//", "rust-runner:", "edition", "=", "2018">>,
    <<"use", " ", "rand", ";">>,
    <<" ", "use", " ", "serde", ";">> }

RECURSIVE SeqsUpTo(_, _)
SeqsUpTo(S, n) ==
  IF n = 0 THEN { <<>> }
  ELSE LET shorter == SeqsUpTo(S, n - 1)
       IN  shorter \cup { Append(s, x) : s \in shorter, x \in S }

Contents == SeqsUpTo(LineSamples, MaxLines)

\* The directory the process is started in.
StartDirs == { "/home/user" }

\* The path of the directory Builder::new().prefix("rustjunk").tempdir() makes.
TmpPath == "/tmp/rustjunk"

\* ---------------------------------------------------------- string helpers

IsSpace(t) == t = " "

\* A token made of word characters only (\w).
IsWord(t) == t \notin { " ", "//", "rust-runner:", ";", "=", "1.70" }

RECURSIVE trim_start(_)
trim_start(s) ==
  IF s = <<>> THEN s
  ELSE IF IsSpace(Head(s)) THEN trim_start(Tail(s)) ELSE s

RECURSIVE trim_end(_)
trim_end(s) ==
  IF s = <<>> THEN s
  ELSE IF IsSpace(s[Len(s)]) THEN trim_end(SubSeq(s, 1, Len(s) - 1)) ELSE s

trim(s) == trim_end(trim_start(s))

starts_with(s, t) == Len(s) > 0 /\ s[1] = t

\* Index of the first occurrence of token t in s, 0 when there is none.
find(s, t) ==
  IF \E i \in 1..Len(s) : s[i] = t
  THEN CHOOSE i \in 1..Len(s) : s[i] = t /\ \A j \in 1..(i - 1) : s[j] # t
  ELSE 0

\* str::split(sep): the pieces between the separators; one (empty) piece for
\* the empty string.
RECURSIVE split(_, _)
split(s, sep) ==
  LET i == find(s, sep)
  IN  IF i = 0 THEN << s >>
      ELSE << SubSeq(s, 1, i - 1) >> \o split(SubSeq(s, i + 1, Len(s)), sep)

\* str::splitn(2, sep): one piece without a separator, else the text before the
\* first separator and everything after it.
splitn2(s, sep) ==
  LET i == find(s, sep)
  IN  IF i = 0 THEN << s >>
      ELSE << SubSeq(s, 1, i - 1), SubSeq(s, i + 1, Len(s)) >>

\* RE_OPTION_COMMENT = ^\s*//\s*rust-runner:\s*(?P<option>.*)$
NoMatch == [matched |-> FALSE, group |-> <<>>]

RE_OPTION_COMMENT(line) ==
  LET a == trim_start(line)
  IN  IF ~starts_with(a, "//") THEN NoMatch
      ELSE LET b == trim_start(Tail(a))
           IN  IF ~starts_with(b, "rust-runner:") THEN NoMatch
               ELSE [matched |-> TRUE, group |-> trim_start(Tail(b))]

\* RE_USE = ^\s*use\s+(?P<crate>[\w\d]+)
RE_USE(line) ==
  LET a == trim_start(line)
  IN  IF ~starts_with(a, "use") THEN NoMatch
      ELSE LET b == Tail(a)
               c == trim_start(b)
           IN  IF Len(c) < Len(b) /\ c # <<>> /\ IsWord(c[1])
               THEN [matched |-> TRUE, group |-> << c[1] >>]
               ELSE NoMatch

\* ------------------------------------------------------------------ errors

Ok == [msg |-> "Ok", arg |-> <<>>]
Err(m, a) == [msg |-> m, arg |-> a]
IoError(what) == Err("io error", << what >>)

\* ----------------------------------------------------------------- Context

EmptyOptions == [o \in {} |-> <<>>]

\* OptionType::parse
OptionType_parse(name) ==
  IF name = << "toolchain" >> THEN { "Toolchain" } ELSE {}

\* insert as HashMap::entry(key).or_insert(value) would do it: the first value stays.
insert_keep_first(options, key, value) ==
  [o \in DOMAIN options \cup { key } |->
     IF o \in DOMAIN options THEN options[o] ELSE value]

\* HashMap::insert: the new value replaces the one stored under the key.
insert(options, key, value) ==
  [o \in DOMAIN options \cup { key } |-> IF o = key THEN value ELSE options[o]]

\* The loop over the fragments of one directive line (main.rs 108-123).
RECURSIVE option_loop(_, _, _)
option_loop(option_strs, j, options) ==
  IF j > Len(option_strs) THEN [ok |-> TRUE, options |-> options, err |-> Ok]
  ELSE LET option_str == option_strs[j]
           name_value == splitn2(option_str, "=")
       IN  IF Len(name_value) < 2
           THEN [ok |-> FALSE, options |-> EmptyOptions,
                 err |-> Err("invalid option string", option_str)]
           ELSE LET name == name_value[1]
                    value == name_value[2]
                    ty == OptionType_parse(name)
                IN  IF ty = {}
                    THEN [ok |-> FALSE, options |-> EmptyOptions,
                          err |-> Err("unknown option", name)]
                    ELSE option_loop(option_strs, j + 1,
                                     insert(options, CHOOSE t \in ty : TRUE, value))

\* ends_scan with the `break` turned into a `continue`: no line ends the scan.
ends_scan_never(line) == FALSE

\* The line that ends the leading comment block (main.rs 97-100).
ends_scan(line) == ~starts_with(trim_start(line), "//")

\* The loop over the lines (main.rs 91-124).
RECURSIVE line_loop(_, _, _)
line_loop(lines, i, options) ==
  IF i > Len(lines) THEN [ok |-> TRUE, options |-> options, err |-> Ok]
  ELSE LET line == lines[i]
       IN  IF trim(line) = <<>> THEN line_loop(lines, i + 1, options)
           ELSE IF ends_scan(line)
                THEN [ok |-> TRUE, options |-> options, err |-> Ok]
           ELSE LET captures == RE_OPTION_COMMENT(line)
                IN  IF ~captures.matched THEN line_loop(lines, i + 1, options)
                    ELSE LET r == option_loop(split(captures.group, ";"), 1, options)
                         IN  IF ~r.ok THEN r
                             ELSE line_loop(lines, i + 1, r.options)

gather_options(text) == line_loop(text, 1, EmptyOptions)

parse_toolchain(options) ==
  IF "Toolchain" \in DOMAIN options THEN options["Toolchain"] ELSE << "stable" >>

parse_imports(text) ==
  { RE_USE(text[i]).group[1] : i \in { k \in 1..Len(text) : RE_USE(text[k]).matched } }
    \ { "std", "crate", "self", "super" }

\* ------------------------------------------------------------ control flow

\* MainSteps with the source parsed only after the environment is entered.
MainSteps_parse_late ==
  << "read_content", "tempdir", "current_dir", "set_current_dir", "parse",
     "init_project", "run_project", "restore" >>

\* The statements of main, in program order (main.rs 152-174).
MainSteps ==
  << "read_content", "parse", "tempdir", "current_dir", "set_current_dir",
     "init_project", "run_project", "restore" >>

\* InitSteps with the dependencies added right after `cargo init`, before the
\* entry-point file is replaced.
InitSteps_add_first ==
  << "cargo_init", "cargo_add", "which_sccache", "create_dir_all", "write_config",
     "remove_file", "create", "write_all", "write_toolchain" >>

\* InitSteps with the sccache configuration written last.
InitSteps_sccache_last ==
  << "cargo_init", "remove_file", "create", "write_all", "cargo_add",
     "write_toolchain", "which_sccache", "create_dir_all", "write_config" >>

\* The statements of init_project, in program order (main.rs 176-224).
InitSteps ==
  << "cargo_init", "which_sccache", "create_dir_all", "write_config",
     "remove_file", "create", "write_all", "cargo_add", "write_toolchain" >>

\* Calling init_project continues at its first statement.
Enter(step) == IF step = "init_project" THEN InitSteps[1] ELSE step

AfterMain(step) ==
  LET i == find(MainSteps, step)
  IN  IF i = Len(MainSteps) THEN "done" ELSE Enter(MainSteps[i + 1])

\* Falling off the end of init_project returns Ok(()), and `and_then` goes on.
AfterInit(step) ==
  LET i == find(InitSteps, step)
  IN  IF i = Len(InitSteps) THEN AfterMain("init_project") ELSE InitSteps[i + 1]

ProcessStatus == { "success", "failure", "error" }
IoOutcome == { "ok", "err" }

NoFile == [exists |-> FALSE, text |-> <<>>]
NoFiles ==
  [main_rs |-> NoFile, cargo_dir |-> FALSE, cargo_config |-> FALSE,
   rust_toolchain |-> NoFile]

\* What `cargo init` leaves in src/main.rs.
DefaultMain == << << "fn", " ", "main" >> >>

Unparsed == [ok |-> FALSE, options |-> EmptyOptions, err |-> Err("not parsed", <<>>)]

\* One call of an external operation, with its outcome and the project files
\* and working directory it saw.
Log(op, arg, out) ==
  trace' = Append(trace, [op |-> op, arg |-> arg, out |-> out, fs |-> fs, cwd |-> cwd])

Advance(step) == pc' = step /\ UNCHANGED <<result, tmpdir, res>>

\* Return with the directory removed by an explicit call on the success path
\* only, instead of by Drop.
Return_leak(r) ==
  /\ pc' = "done"
  /\ result' = r
  /\ tmpdir' = (IF r = Ok THEN FALSE ELSE tmpdir)
  /\ UNCHANGED res

\* main returns r; `tmpdir: TempDir` goes out of scope, and its Drop removes
\* the directory (a no-op in the model when it was never created).
Return(r) == pc' = "done" /\ result' = r /\ tmpdir' = FALSE /\ UNCHANGED res

\* Captured with a `?` on the operation: its error leaves main at once.
Captured_early(r) ==
  IF r = Ok
  THEN res' = r /\ pc' = AfterMain("run_project") /\ UNCHANGED <<result, tmpdir>>
  ELSE res' = r /\ pc' = "done" /\ result' = r /\ tmpdir' = FALSE

\* init_project(..).and_then(|_| run_project()) evaluates to r, which is bound
\* to `res`; main goes on with the statement after it (main.rs 168).
Captured(r) ==
  res' = r /\ pc' = AfterMain("run_project") /\ UNCHANGED <<result, tmpdir>>

\* ----------------------------------------------------------------- actions

Init ==
  /\ content \in Contents
  /\ pc = Enter(MainSteps[1])
  /\ parsed = Unparsed
  /\ toolchain = <<>>
  /\ imports = {}
  /\ remaining = {}
  /\ cwd \in StartDirs
  /\ old_current = ""
  /\ tmpdir = FALSE
  /\ fs = NoFiles
  /\ res = Ok
  /\ result = Ok
  /\ trace = <<>>

\* args.source_file.read_content()? (main.rs 159)
ReadContent ==
  /\ pc = "read_content"
  /\ \E out \in IoOutcome :
       /\ Log("read_content", <<>>, out)
       /\ IF out = "ok" THEN Advance(AfterMain("read_content"))
          ELSE Return(IoError("read_content"))
  /\ UNCHANGED <<content, parsed, toolchain, imports, remaining, cwd, old_current, fs>>

\* Context::parse(&content)? (main.rs 160, 80-86)
Parse ==
  /\ pc = "parse"
  /\ LET r == gather_options(content)
     IN  /\ parsed' = r
         /\ IF r.ok
            THEN /\ toolchain' = parse_toolchain(r.options)
                 /\ imports' = parse_imports(content)
                 /\ remaining' = parse_imports(content)
                 /\ Advance(AfterMain("parse"))
            ELSE /\ Return(r.err)
                 /\ UNCHANGED <<toolchain, imports, remaining>>
  /\ UNCHANGED <<content, cwd, old_current, fs, trace>>

\* Builder::new().prefix("rustjunk").tempdir()? (main.rs 163)
TempDir ==
  /\ pc = "tempdir"
  /\ \E out \in IoOutcome :
       /\ Log("tempdir", <<>>, out)
       /\ IF out = "ok"
          THEN pc' = AfterMain("tempdir") /\ tmpdir' = TRUE /\ UNCHANGED <<result, res>>
          ELSE Return(IoError("tempdir"))
  /\ UNCHANGED <<content, parsed, toolchain, imports, remaining, cwd, old_current, fs>>

\* env::current_dir()? (main.rs 164)
CurrentDir ==
  /\ pc = "current_dir"
  /\ \E out \in IoOutcome :
       /\ Log("current_dir", <<>>, out)
       /\ IF out = "ok"
          THEN old_current' = cwd /\ Advance(AfterMain("current_dir"))
          ELSE UNCHANGED old_current /\ Return(IoError("current_dir"))
  /\ UNCHANGED <<content, parsed, toolchain, imports, remaining, cwd, fs>>

\* env::set_current_dir(tmpdir.path())? (main.rs 165)
SetCurrentDir ==
  /\ pc = "set_current_dir"
  /\ \E out \in IoOutcome :
       /\ Log("set_current_dir", <<>>, out)
       /\ IF out = "ok"
          THEN cwd' = TmpPath /\ Advance(AfterMain("set_current_dir"))
          ELSE UNCHANGED cwd /\ Return(IoError("set_current_dir"))
  /\ UNCHANGED <<content, parsed, toolchain, imports, remaining, old_current, fs>>

\* cargo init --name rustrunner (main.rs 178-186)
CargoInit ==
  /\ pc = "cargo_init"
  /\ \E out \in ProcessStatus :
       /\ Log("cargo_init", <<>>, out)
       /\ CASE out = "success" ->
                 /\ fs' = [fs EXCEPT !.main_rs = [exists |-> TRUE, text |-> DefaultMain]]
                 /\ Advance(AfterInit("cargo_init"))
            [] out = "failure" ->
                 /\ Captured(Err("failed to init cargo project.", <<>>))
                 /\ UNCHANGED fs
            [] out = "error" ->
                 /\ Captured(IoError("cargo init"))
                 /\ UNCHANGED fs
  /\ UNCHANGED <<content, parsed, toolchain, imports, remaining, cwd, old_current>>

\* which::which("sccache") (main.rs 189)
WhichSccache ==
  /\ pc = "which_sccache"
  /\ \E out \in { "found", "not found" } :
       /\ Log("which_sccache", <<>>, out)
       /\ IF out = "found" THEN Advance(AfterInit("which_sccache"))
          ELSE Advance(AfterInit("write_config"))
  /\ UNCHANGED <<content, parsed, toolchain, imports, remaining, cwd, old_current, fs>>

\* fs::create_dir_all(".cargo")? (main.rs 190)
CreateDirAll ==
  /\ pc = "create_dir_all"
  /\ \E out \in IoOutcome :
       /\ Log("create_dir_all", <<>>, out)
       /\ IF out = "ok"
          THEN fs' = [fs EXCEPT !.cargo_dir = TRUE] /\ Advance(AfterInit("create_dir_all"))
          ELSE UNCHANGED fs /\ Captured(IoError("create_dir_all"))
  /\ UNCHANGED <<content, parsed, toolchain, imports, remaining, cwd, old_current>>

\* fs::write(".cargo/config", s)? (main.rs 191-199)
WriteConfig ==
  /\ pc = "write_config"
  /\ \E out \in IoOutcome :
       /\ Log("write_config", <<>>, out)
       /\ IF out = "ok"
          THEN fs' = [fs EXCEPT !.cargo_config = TRUE] /\ Advance(AfterInit("write_config"))
          ELSE UNCHANGED fs /\ Captured(IoError("write_config"))
  /\ UNCHANGED <<content, parsed, toolchain, imports, remaining, cwd, old_current>>

\* fs::remove_file("src/main.rs")? (main.rs 203)
RemoveFile ==
  /\ pc = "remove_file"
  /\ \E out \in IF fs.main_rs.exists THEN IoOutcome ELSE { "err" } :
       /\ Log("remove_file", <<>>, out)
       /\ IF out = "ok"
          THEN fs' = [fs EXCEPT !.main_rs = NoFile] /\ Advance(AfterInit("remove_file"))
          ELSE UNCHANGED fs /\ Captured(IoError("remove_file"))
  /\ UNCHANGED <<content, parsed, toolchain, imports, remaining, cwd, old_current>>

\* File::create("src/main.rs")? (main.rs 204)
Create ==
  /\ pc = "create"
  /\ \E out \in IoOutcome :
       /\ Log("create", <<>>, out)
       /\ IF out = "ok"
          THEN /\ fs' = [fs EXCEPT !.main_rs = [exists |-> TRUE, text |-> <<>>]]
               /\ Advance(AfterInit("create"))
          ELSE UNCHANGED fs /\ Captured(IoError("create"))
  /\ UNCHANGED <<content, parsed, toolchain, imports, remaining, cwd, old_current>>

\* f.write_all(content.as_bytes())? (main.rs 205)
WriteAll ==
  /\ pc = "write_all"
  /\ \E out \in IoOutcome :
       /\ Log("write_all", <<>>, out)
       /\ IF out = "ok"
          THEN /\ fs' = [fs EXCEPT !.main_rs = [exists |-> TRUE, text |-> content]]
               /\ Advance(AfterInit("write_all"))
          ELSE UNCHANGED fs /\ Captured(IoError("write_all"))
  /\ UNCHANGED <<content, parsed, toolchain, imports, remaining, cwd, old_current>>

\* add_aborts with a non-success exit status treated like the one of `cargo init`.
add_aborts_on_failure(out) == out # "success"

\* Whether one `cargo add` ends init_project: only `.status()?` can, the exit
\* status is reported and ignored (main.rs 210-217).
add_aborts(out) == out = "error"

\* One iteration of `for import in &context.imports` (main.rs 208-218); a
\* HashSet yields its elements in an unspecified order.
CargoAdd ==
  /\ pc = "cargo_add"
  /\ remaining # {}
  /\ \E import \in remaining, out \in ProcessStatus :
       /\ Log("cargo_add", << import >>, out)
       /\ IF add_aborts(out)
          THEN UNCHANGED remaining /\ Captured(IoError("cargo add"))
          ELSE remaining' = remaining \ { import } /\ Advance(pc)
  /\ UNCHANGED <<content, parsed, toolchain, imports, cwd, old_current, fs>>

\* The loop over the imports is exhausted (main.rs 208).
AddDone ==
  /\ pc = "cargo_add"
  /\ remaining = {}
  /\ Advance(AfterInit("cargo_add"))
  /\ UNCHANGED <<content, parsed, toolchain, imports, remaining, cwd, old_current, fs, trace>>

\* fs::write("rust-toolchain", &context.toolchain)? (main.rs 221)
WriteToolchain ==
  /\ pc = "write_toolchain"
  /\ \E out \in IoOutcome :
       /\ Log("write_toolchain", <<>>, out)
       /\ IF out = "ok"
          THEN /\ fs' = [fs EXCEPT !.rust_toolchain = [exists |-> TRUE, text |-> toolchain]]
               /\ Advance(AfterInit("write_toolchain"))
          ELSE UNCHANGED fs /\ Captured(IoError("write_toolchain"))
  /\ UNCHANGED <<content, parsed, toolchain, imports, remaining, cwd, old_current>>

\* run_result with the exit status of `cargo run` not looked at.
run_result_unchecked(out) ==
  IF out = "error" THEN IoError("cargo run") ELSE Ok

\* The value of run_project for the outcome of `cargo run` (main.rs 226-233).
run_result(out) ==
  CASE out = "success" -> Ok
    [] out = "failure" -> Err("failed to run the program.", <<>>)
    [] out = "error" -> IoError("cargo run")

\* run_project() (main.rs 226-233)
RunProject ==
  /\ pc = "run_project"
  /\ \E out \in ProcessStatus :
       /\ Log("cargo_run", <<>>, out)
       /\ Captured(run_result(out))
  /\ UNCHANGED <<content, parsed, toolchain, imports, remaining, cwd, old_current, fs>>

\* The value main returns after the restore (main.rs 171-173).
restore_result(out, r) == IF out = "ok" THEN r ELSE IoError("restore")

\* env::set_current_dir(old_current)?; res (main.rs 171-173)
Restore ==
  /\ pc = "restore"
  /\ \E out \in IoOutcome :
       /\ Log("restore", <<>>, out)
       /\ cwd' = IF out = "ok" THEN old_current ELSE cwd
       /\ Return(restore_result(out, res))
  /\ UNCHANGED <<content, parsed, toolchain, imports, remaining, old_current, fs>>

Next ==
  \/ ReadContent
  \/ Parse
  \/ TempDir
  \/ CurrentDir
  \/ SetCurrentDir
  \/ CargoInit
  \/ WhichSccache
  \/ CreateDirAll
  \/ WriteConfig
  \/ RemoveFile
  \/ Create
  \/ WriteAll
  \/ CargoAdd
  \/ AddDone
  \/ WriteToolchain
  \/ RunProject
  \/ Restore

Spec == Init /\ [][Next]_vars

TypeOK ==
  /\ content \in Contents
  /\ pc \in { "read_content", "parse", "tempdir", "current_dir", "set_current_dir",
              "cargo_init", "which_sccache", "create_dir_all", "write_config",
              "remove_file", "create", "write_all", "cargo_add", "write_toolchain",
              "run_project", "restore", "done" }
  /\ imports \subseteq { "rand", "serde" }
  /\ remaining \subseteq imports
  /\ cwd \in StartDirs \cup { TmpPath }
  /\ tmpdir \in BOOLEAN

\* ------------------------------------------------------ history predicates

\* The positions of the calls of `op` in the history.
Calls(op) == { i \in 1..Len(trace) : trace[i].op = op }

Happened(op, out) == \E i \in Calls(op) : trace[i].out = out

Done == pc = "done"

\* The environment was entered: the switch into the temporary directory succeeded.
Entered == Happened("set_current_dir", "ok")

ProcessOps == { "cargo_init", "cargo_add", "cargo_run" }

ScaffoldOps ==
  { "cargo_init", "create_dir_all", "write_config", "remove_file", "create",
    "write_all", "write_toolchain" }

DirectiveErrors == { "invalid option string", "unknown option" }

\* A line that is neither blank nor a comment.
IsCodeLine(line) ==
  \E k \in 1..Len(line) :
    /\ ~IsSpace(line[k])
    /\ \A m \in 1..(k - 1) : IsSpace(line[m])
    /\ line[k] # "//"

\* The lines before the first code line.
LeadingBlock(text) ==
  LET code == { i \in 1..Len(text) : IsCodeLine(text[i]) }
  IN  IF code = {} THEN text
      ELSE SubSeq(text, 1, (CHOOSE i \in code : \A j \in code : i <= j) - 1)

IsDirectiveLine(line) == RE_OPTION_COMMENT(line).matched

RECURSIVE Fragments(_)
\* The `;`-separated fragments of the directive lines of a text, in file order.
Fragments(lines) ==
  IF lines = <<>> THEN <<>>
  ELSE (IF IsDirectiveLine(Head(lines))
        THEN split(RE_OPTION_COMMENT(Head(lines)).group, ";") ELSE <<>>)
       \o Fragments(Tail(lines))

WellFormedFragment(f) ==
  \E k \in 1..Len(f) : f[k] = "=" /\ SubSeq(f, 1, k - 1) = << "toolchain" >>

\* The leading comment block holds only well-formed directives with known names.
WellFormed(text) ==
  LET fr == Fragments(LeadingBlock(text))
  IN  \A k \in 1..Len(fr) : WellFormedFragment(fr[k])

\* The value of the last toolchain directive of a well-formed text.
LastToolchain(text) ==
  LET fr == Fragments(LeadingBlock(text))
      last == fr[Len(fr)]
  IN  SubSeq(last, Len(<< "toolchain", "=" >>) + 1, Len(last))

WasParsed == parsed # Unparsed

\* ------------------------------------------------------------------ claims

\* C1: once main has switched into the temporary directory, main does not end
\* without a call that sets the working directory back, however init_project
\* and run_project ended; and when that call succeeded, the working directory
\* at the end is the one current_dir() reported before the switch.
C1_RestoreOnEveryPath ==
  (Done /\ Entered) =>
    /\ Calls("restore") # {}
    /\ Happened("restore", "ok") =>
         \A i \in Calls("current_dir") : cwd = trace[i].cwd /\ cwd = old_current

\* C1 witness: the operation failed, the restore was made and succeeded.
C1_Witness ==
  /\ Done /\ Entered
  /\ res # Ok
  /\ Happened("restore", "ok")
  /\ cwd \in StartDirs

AddsOf(c) == { i \in Calls("cargo_add") : trace[i].arg = << c >> }

\* C3: a `cargo add` that exits with a non-success status aborts nothing: no
\* crate is added twice; once the loop is left without a spawn error every
\* import has had exactly one `cargo add`, failed or not; when the pin file
\* was then written `cargo run` was invoked; and the result of main is decided
\* by `cargo run` and the restore alone, as if every add had succeeded.
C3_AddFailureTolerated ==
  /\ \A c \in imports : Cardinality(AddsOf(c)) <= 1
  /\ (Done /\ Happened("write_all", "ok") /\ ~Happened("cargo_add", "error")) =>
       /\ \A c \in imports : Cardinality(AddsOf(c)) = 1
       /\ Happened("write_toolchain", "ok") => Cardinality(Calls("cargo_run")) = 1
  /\ (Done /\ Calls("cargo_run") # {}) =>
       /\ result = Ok <=> (Happened("cargo_run", "success") /\ Happened("restore", "ok"))
       /\ \A i \in Calls("cargo_run"), j \in Calls("restore") :
            result = restore_result(trace[j].out, run_result(trace[i].out))

\* C3 witness: two imports, the first `cargo add` failed, the second was made
\* all the same, and main ended in success.
C3_Witness ==
  /\ Done
  /\ result = Ok
  /\ Cardinality(imports) = 2
  /\ \E i, j \in Calls("cargo_add") : i < j /\ trace[i].out = "failure"
  /\ Happened("cargo_run", "success")

\* C4: a run that ends with a DirectiveError never created the temporary
\* directory, never changed the working directory and never invoked cargo.
C4_DirectiveErrorBeforeEnvironment ==
  (Done /\ result.msg \in DirectiveErrors) =>
    /\ \A i \in 1..Len(trace) : trace[i].op = "read_content"
    /\ ~tmpdir
    /\ cwd \in StartDirs
    /\ old_current = ""
    /\ fs = NoFiles

\* C4 witness: main ended with "invalid option string" on a text whose bad
\* fragment follows a good one.
C4_Witness ==
  /\ Done
  /\ result.msg = "invalid option string"
  /\ parsed = gather_options(content)
  /\ Len(Fragments(LeadingBlock(content))) > 1

\* C5: when the operation failed, main returns the operation's error, after
\* the restore was made.
C5_OperationErrorReturned ==
  (Done /\ Entered /\ res # Ok) => (Calls("restore") # {} /\ result = res)


SourceWritten(f) == f.main_rs = [exists |-> TRUE, text |-> content]

PinWritten(f) == f.rust_toolchain = [exists |-> TRUE, text |-> toolchain]

C7_CacheConfigBeforeAddAndRun ==
  /\ Happened("which_sccache", "found") =>
       /\ \A i \in Calls("cargo_add") \cup Calls("cargo_run") : trace[i].fs.cargo_config
       /\ \A i \in Calls("write_config") :
            \E j \in Calls("cargo_init") : j < i /\ trace[j].out = "success"
  /\ Happened("which_sccache", "not found") =>
       /\ Calls("create_dir_all") \cup Calls("write_config") = {}
       /\ ~fs.cargo_dir /\ ~fs.cargo_config
       /\ \A i \in Calls("which_sccache") :
            /\ i < Len(trace) => trace[i + 1].op = "remove_file"
            /\ i = Len(trace) => (pc = "remove_file" /\ res = Ok)

\* C7 witness: sccache was found, an import was added and the program was run.
C7_Witness ==
  /\ Happened("which_sccache", "found")
  /\ Calls("cargo_add") # {}
  /\ Calls("cargo_run") # {}
  /\ fs.cargo_config

\* An outcome that is an I/O error or a non-success exit status.
Failed(out) == out \in { "err", "error", "failure" }

\* C8, the part that holds: `cargo run` is invoked at most once, and only
\* after a successful `cargo init`, with the entry-point file holding the
\* source text and the pin file written; after a failed `cargo init` or
\* scaffold file operation nothing but the restore is called and main ends in
\* failure; a `cargo run` that did not succeed makes main end in failure.
C8_RunOnceAfterScaffold ==
  /\ Cardinality(Calls("cargo_run")) <= 1
  /\ \A i \in Calls("cargo_run") :
       /\ \E j \in Calls("cargo_init") : j < i /\ trace[j].out = "success"
       /\ \E j \in Calls("write_all") : j < i /\ trace[j].out = "ok"
       /\ \E j \in Calls("write_toolchain") : j < i /\ trace[j].out = "ok"
       /\ SourceWritten(trace[i].fs) /\ PinWritten(trace[i].fs)
  /\ \A i \in 1..Len(trace) :
       (trace[i].op \in ScaffoldOps /\ Failed(trace[i].out)) =>
         /\ \A j \in (i + 1)..Len(trace) : trace[j].op = "restore"
         /\ Done => result # Ok
  /\ (Done /\ Calls("cargo_run") # {} /\ ~Happened("cargo_run", "success")) =>
       result # Ok

\* C8, as stated: the part above, and a successful `cargo run` makes main end
\* in success.
C8_RunStatusDecidesMain ==
  /\ C8_RunOnceAfterScaffold
  /\ (Done /\ Happened("cargo_run", "success")) => result = Ok

\* C8, amended: the part above, and a successful `cargo run` makes main end in
\* success when the restore of the working directory succeeds, and in failure
\* when it does not.
C8_RunStatusDecidesMainIfRestored ==
  /\ C8_RunOnceAfterScaffold
  /\ (Done /\ Happened("cargo_run", "success")) =>
       (result = Ok <=> Happened("restore", "ok"))

\* C8 witness: `cargo run` succeeded, the restore succeeded, main ended in success.
C8_Witness ==
  /\ Done
  /\ Happened("cargo_run", "success")
  /\ Happened("restore", "ok")
  /\ result = Ok

\* C9, the part that holds: on a text whose leading comment block holds only
\* well-formed directives with known names, gather_options succeeds with a
\* mapping that has exactly the names that occur, each with the value of its
\* last occurrence in file order; parse_toolchain gives that value, and
\* "stable" when no toolchain directive occurs.
C9_LastDirectiveWins ==
  (WasParsed /\ WellFormed(content)) =>
    /\ parsed.ok
    /\ LET occurs == Fragments(LeadingBlock(content)) # <<>>
       IN  /\ DOMAIN parsed.options = (IF occurs THEN { "Toolchain" } ELSE {})
           /\ occurs => parsed.options["Toolchain"] = LastToolchain(content)
           /\ toolchain = (IF occurs THEN LastToolchain(content) ELSE << "stable" >>)

\* C9, as stated: the part above, and parse_toolchain gives "stable" exactly
\* when no toolchain directive occurs.
C9_StableExactlyWhenAbsent ==
  /\ C9_LastDirectiveWins
  /\ (WasParsed /\ WellFormed(content)) =>
       (toolchain = << "stable" >> <=> Fragments(LeadingBlock(content)) = <<>>)

\* C9, amended: the part above, and parse_toolchain gives "stable" exactly
\* when no toolchain directive occurs or the last one has the value "stable".
C9_StableWhenAbsentOrSaid ==
  /\ C9_LastDirectiveWins
  /\ (WasParsed /\ WellFormed(content)) =>
       (toolchain = << "stable" >> <=>
          \/ Fragments(LeadingBlock(content)) = <<>>
          \/ LastToolchain(content) = << "stable" >>)

\* C9 witness: three toolchain directives on two lines, the last one decides.
C9_Witness ==
  /\ WasParsed
  /\ WellFormed(content)
  /\ Len(Fragments(LeadingBlock(content))) > 2
  /\ \E k \in 1..Len(content) :
       IsDirectiveLine(content[k]) /\ Len(split(RE_OPTION_COMMENT(content[k]).group, ";")) = 1
  /\ toolchain = << "nightly" >>

\* C10: the outcome of gather_options, mapping or error, is the one of the
\* lines before the first code line, whatever follows; and blank lines and
\* ordinary comments among those lines change nothing.
C10_ScanStopsAtCode ==
  WasParsed =>
    /\ parsed = gather_options(LeadingBlock(content))
    /\ parsed = gather_options(SelectSeq(LeadingBlock(content), IsDirectiveLine))

\* C10 witness: a directive before the code line was taken, and a malformed
\* directive after the code line raised nothing.
C10_Witness ==
  /\ WasParsed
  /\ parsed.ok
  /\ "Toolchain" \in DOMAIN parsed.options
  /\ Len(content) > Len(LeadingBlock(content)) + 1
  /\ ~WellFormed(SubSeq(content, Len(LeadingBlock(content)) + 2, Len(content)))

====
